---- MODULE Spec2Model ----
(***************************************************************************)
(* Quarterly financial aggregation pipeline of src/main.py:                *)
(* collect_quarterly_financials and the functions it calls                 *)
(* (get_quarter_info, get_financial_data, get_financial_data_from_db,      *)
(* save_financial_data_to_db, adjust_q4_values), for one company.          *)
(*                                                                         *)
(* Representation                                                          *)
(*   amount     <<n>> is the number n, <<>> is NaN (pandas' missing value) *)
(*   DataFrame  of one statement: a function account_id -> amount          *)
(*   cache row  a record of the columns of cached_financials               *)
(*   None       the value None (an absent statement, a failed lookup)      *)
(***************************************************************************)
EXTENDS Integers, Sequences, FiniteSets, TLC

VARIABLES
    pc,                 \* position of the main thread in collect_quarterly_financials
    year_month,         \* argument year_month of the current call (NoYearMonth: None)
    end_year,           \* main.py:313
    end_quarter,        \* main.py:314-316
    current_year,       \* main.py:320
    current_quarter,    \* main.py:321
    quarters_to_collect,\* main.py:319
    remote,             \* the statements the remote source holds: <<year, report_code, fs_div>> -> DataFrame or None
    cache,              \* the rows of table cached_financials (main.py:22-33)
    failures,           \* the number of remote calls that ended in a transport error so far
    db_state,           \* the cache file: "ok" (no call of it raises), "faulty" (a call of it may raise), "raised" (one did)
    runs,               \* the number of calls of collect_quarterly_financials so far
    determined_fs_divs, \* main.py:350
    missing_tasks,      \* main.py:343
    all_data,           \* main.py:304
    loop_i,             \* index of the current element of the for loop the main thread is in
    api_tasks,          \* main.py:426
    submitted,          \* how many of api_tasks executor.submit has taken (main.py:466-469)
    futures,            \* future_to_task: per task the state of its future and its result
    result,             \* the DataFrame returned by the last call
    log,                \* this call's cache lookups and remote requests, in the order issued
    cache_at_call,      \* the cache as it was when this call started
    prev_result,        \* the DataFrame returned by the call before the last
    prev_year_month,    \* the year_month of the call before the last
    adjust_calls,       \* how many times this call has called adjust_q4_values
    adj_rows,           \* the rows drawn for a DataFrame given to adjust_q4_values
    adj_in,             \* the DataFrame given to adjust_q4_values
    adj_out,            \* the DataFrame adjust_q4_values returned
    adj_again,          \* the DataFrame adjust_q4_values returned when given adj_out
    pool_tasks,         \* thread pool by numbers: the tasks to submit
    pool_submitted,     \* the tasks executor.submit has taken
    pool_queued,        \* the tasks waiting in the executor's work queue
    pool_running,       \* the tasks a worker thread is running get_financial_data for
    pool_finished,      \* the futures done and not yet handled by the as_completed loop
    pool_processed,     \* the futures the as_completed loop has handled
    pool_failed         \* whether some task so far ended in a transport error

resolverVars == <<year_month, end_year, end_quarter, current_year, current_quarter,
                  quarters_to_collect>>
storeVars == <<remote, cache, failures, db_state>>
runVars == <<determined_fs_divs, missing_tasks, all_data, loop_i, api_tasks, submitted,
             futures, log>>
runVarsButFutures == <<determined_fs_divs, missing_tasks, all_data, loop_i, api_tasks,
                       submitted, log>>
histVars == <<runs, result, cache_at_call, prev_result, prev_year_month, adjust_calls>>

adjustVars == <<adj_rows, adj_in, adj_out, adj_again>>
poolVars == <<pool_tasks, pool_submitted, pool_queued, pool_running, pool_finished,
              pool_processed, pool_failed>>

vars == <<pc, resolverVars, storeVars, runVars, histVars, adjustVars, poolVars>>

----------------------------------------------------------------------------
(* Bounds of the model *)

\* the anchor years drawn for the quarter-list loop are BaseYear-1 and BaseYear
BaseYear == 2025
\* the anchor months drawn for the quarter-list loop are 0..MaxMonth
MaxMonth == 13

\* at most MaxFailures remote calls of a behaviour end in a transport error
MaxFailures == 1
\* at most MaxRuns calls of collect_quarterly_financials in a behaviour
MaxRuns == 3

\* a DataFrame drawn for adjust_q4_values has at most MaxRows rows
MaxRows == 4
\* the longest task list drawn for the thread pool by numbers
MaxPoolTasks == 40

\* year_month = None (the model never draws a negative anchor)
NoYearMonth == 0 - 1

----------------------------------------------------------------------------
(* get_quarter_info, main.py:219-245 *)

\* quarter boundaries one month early
quarter_of_month_early(month) ==
    IF month < 3 THEN 1
    ELSE IF month < 6 THEN 2
    ELSE IF month < 9 THEN 3
    ELSE 4

quarter_of_month(month) ==
    IF month <= 3 THEN 1
    ELSE IF month <= 6 THEN 2
    ELSE IF month <= 9 THEN 3
    ELSE 4

quarter_end_month_of(month) ==
    IF month <= 3 THEN 3
    ELSE IF month <= 6 THEN 6
    ELSE IF month <= 9 THEN 9
    ELSE 12

get_quarter_info(ym) ==
    LET year  == ym \div 100
        month == ym % 100
    IN  [quarter           |-> quarter_of_month(month),
         quarter_end_year  |-> year,
         quarter_end_month |-> quarter_end_month_of(month)]

\* a window that starts five years before the anchor year
start_year_of_five(quarter_end_year) == quarter_end_year - 5

\* main.py:311
start_year_of(quarter_end_year) == quarter_end_year - 4

----------------------------------------------------------------------------
(* Values *)

None == <<>>
IsNone(df) == DOMAIN df = {}

NaN == <<>>
Num(n) == <<n>>
notna(a) == a # NaN

\* fs_divs, main.py:302 (the order is the order of the list)
fs_divs == <<"CFS", "OFS">>

\* key_items, main.py:185 and main.py:500 (the order a statement lists them in)
key_items == <<"ifrs-full_Revenue", "dart_OperatingIncomeLoss">>
KeyItemSet == { key_items[i] : i \in DOMAIN key_items }
\* an account of a statement that is no key item
OtherItem == "ifrs-full_Assets"

\* main.py:354-357
report_code_of(quarter) ==
    IF quarter = 1 THEN "11013"
    ELSE IF quarter = 2 THEN "11012"
    ELSE IF quarter = 3 THEN "11014"
    ELSE "11011"

\* quarter_map, main.py:510-515, on the report the code stands for
quarter_map(report_code) ==
    IF report_code = "11013" THEN 1
    ELSE IF report_code = "11012" THEN 2
    ELSE IF report_code = "11014" THEN 3
    ELSE 4

RECURSIVE SumSeq(_)
SumSeq(s) == IF s = <<>> THEN 0 ELSE Head(s) + SumSeq(Tail(s))

RECURSIVE SetToSeq(_)
SetToSeq(S) == IF S = {} THEN <<>>
               ELSE LET x == CHOOSE y \in S : TRUE IN <<x>> \o SetToSeq(S \ {x})

RECURSIVE Flatten(_)
Flatten(ss) == IF ss = <<>> THEN <<>> ELSE Head(ss) \o Flatten(Tail(ss))

SelectIdx(s, Test(_)) == { i \in DOMAIN s : Test(s[i]) }

----------------------------------------------------------------------------
(* The cache: table cached_financials, main.py:19-34.  Its primary key is  *)
(* (corp_code, year, report_code, fs_div, account_id); the model holds one *)
(* company, so corp_code is left out of the rows.                          *)
(* A call of the store that raises (duckdb.connect on a locked or missing  *)
(* file, main.py:160 and 182) ends in the except branch of main.py:172-174 *)
(* or 216-217; `raised` says whether the call does.  Calls raise only      *)
(* while db_state is "faulty", which is so in SpecStorage alone: under     *)
(* the other specifications the store works in every behaviour.            *)

\* a primary key without the column report_code
SameKey_without_report_code(r1, r2) ==
    /\ r1.year = r2.year
    /\ r1.fs_div = r2.fs_div
    /\ r1.account_id = r2.account_id

SameKey(r1, r2) ==
    /\ r1.year = r2.year
    /\ r1.report_code = r2.report_code
    /\ r1.fs_div = r2.fs_div
    /\ r1.account_id = r2.account_id

\* INSERT OR REPLACE, main.py:207-211
InsertOrReplace(table, rows) ==
    { r \in table : \A n \in rows : ~SameKey(r, n) } \cup rows

\* get_financial_data_from_db, main.py:157-174: the DataFrame of the rows
\* selected, None when there is none, and None when the call raised
get_financial_data_from_db(table, year, report_code, fs_div, raised) ==
    LET rows == { r \in table : /\ r.year = year
                                /\ r.report_code = report_code
                                /\ r.fs_div = fs_div }
    IN  IF raised THEN None
        ELSE [a \in { r.account_id : r \in rows } |->
                Num((CHOOSE r \in rows : r.account_id = a).thstrm_amount)]

\* the rows save_financial_data_to_db inserts, main.py:185-204
data_to_insert(df, year, quarter, report_code, fs_div) ==
    { [year |-> year, quarter |-> quarter, report_code |-> report_code,
       fs_div |-> fs_div, account_id |-> a,
       thstrm_amount |-> IF notna(df[a]) THEN df[a][1] ELSE 0]
      : a \in (DOMAIN df) \cap KeyItemSet }

\* a save that files every statement under CFS
save_under_cfs(table, df, year, quarter, report_code, fs_div, raised) ==
    IF IsNone(df) \/ raised THEN table
    ELSE InsertOrReplace(table, data_to_insert(df, year, quarter, report_code, "CFS"))

\* save_financial_data_to_db, main.py:176-217: the table after the call, the
\* table as it was when the call raised
save_financial_data_to_db(table, df, year, quarter, report_code, fs_div, raised) ==
    IF IsNone(df) \/ raised THEN table
    ELSE InsertOrReplace(table, data_to_insert(df, year, quarter, report_code, fs_div))

----------------------------------------------------------------------------
(* The remote source and get_financial_data, main.py:122-155 *)

RemoteKey(year, report_code, fs_div) == <<year, report_code, fs_div>>

\* a request that raised handed on as a statement without amounts
get_financial_data_error_payload(year, report_code, fs_div, raised) ==
    IF raised THEN (OtherItem :> NaN) ELSE remote[RemoteKey(year, report_code, fs_div)]

\* get_financial_data: the statement the source holds, None when it holds
\* none (status other than '000', or an empty list) and None when the request
\* raised (timeout, transport error, malformed answer), main.py:151-155
get_financial_data(year, report_code, fs_div, raised) ==
    IF raised THEN None ELSE remote[RemoteKey(year, report_code, fs_div)]

\* a request can end in a transport error while the model's budget of
\* errors lasts; `used` errors were drawn earlier in the same step
MayRaise(year, report_code, fs_div, used) ==
    /\ ~IsNone(remote[RemoteKey(year, report_code, fs_div)])
    /\ failures + used < MaxFailures

----------------------------------------------------------------------------
(* adjust_q4_values, main.py:247-286, on a DataFrame given as the sequence *)
(* of its rows [year, quarter, fs_div, account_id, thstrm_amount]          *)

\* Series.sum() skips NaN
sum_skipna(amounts) ==
    SumSeq([i \in DOMAIN amounts |-> IF notna(amounts[i]) THEN amounts[i][1] ELSE 0])

\* a subtraction with its operands the other way round
minus_reversed(a, n) == IF notna(a) THEN Num(n - a[1]) ELSE NaN

\* NaN - x is NaN
minus(a, n) == IF notna(a) THEN Num(a[1] - n) ELSE NaN

\* main.py:264
q1_q3_data(df, year) ==
    SelectSeq(df, LAMBDA r : r.year = year /\ r.quarter \in {1, 2, 3})

\* the sum of an item over both fs_div
item_sum_any_div(q1_q3, item, fs_div) ==
    LET sel == SelectSeq(q1_q3, LAMBDA r : r.account_id = item)
    IN  sum_skipna([i \in DOMAIN sel |-> sel[i].thstrm_amount])

\* main.py:273
item_sum(q1_q3, item, fs_div) ==
    LET sel == SelectSeq(q1_q3, LAMBDA r : r.account_id = item /\ r.fs_div = fs_div)
    IN  sum_skipna([i \in DOMAIN sel |-> sel[i].thstrm_amount])

\* main.py:270-274: the keys of q1_q2_q3_sum for one year
sum_keys(q1_q3) ==
    { <<r1.account_id, r2.fs_div>> : r1 \in { q1_q3[i] : i \in DOMAIN q1_q3 },
                                     r2 \in { q1_q3[i] : i \in DOMAIN q1_q3 } }

\* main.py:277-284: the row at one index after the adjustment
adjusted_row(df, r) ==
    LET q1_q3 == q1_q3_data(df, r.year)
    IN  IF /\ r.quarter = 4
           /\ q1_q3 # <<>>
           /\ <<r.account_id, r.fs_div>> \in sum_keys(q1_q3)
        THEN [r EXCEPT !.thstrm_amount = minus(@, item_sum(q1_q3, r.account_id, r.fs_div))]
        ELSE r

adjust_q4_values(df) ==
    IF df = <<>> THEN df
    ELSE IF SelectSeq(df, LAMBDA r : r.quarter = 4) = <<>> THEN df
    ELSE [i \in DOMAIN df |-> adjusted_row(df, df[i])]

----------------------------------------------------------------------------
(* collect_quarterly_financials, main.py:494-525: from all_data to the     *)
(* DataFrame returned                                                      *)

\* the rows of one element of all_data that main.py:501 keeps
filtered_rows(e) ==
    LET kept == SelectSeq(key_items, LAMBDA a : a \in DOMAIN e.df)
    IN  [i \in DOMAIN kept |->
            [year |-> e.year, quarter |-> quarter_map(e.report_code), fs_div |-> e.fs_div,
             account_id |-> kept[i], thstrm_amount |-> e.df[kept[i]]]]

\* the elements of all_data concatenated last first
filtered_reversed(data) ==
    Flatten([i \in DOMAIN data |-> filtered_rows(data[Len(data) + 1 - i])])

\* main.py:497-516
filtered(data) == Flatten([i \in DOMAIN data |-> filtered_rows(data[i])])

\* a return that gives a row without amount when there is nothing to return
returned_placeholder(data) ==
    IF data = <<>>
    THEN <<[year |-> 0, quarter |-> 0, fs_div |-> "CFS", account_id |-> "ifrs-full_Revenue",
            thstrm_amount |-> NaN]>>
    ELSE adjust_q4_values(filtered(data))

\* a return that applies adjust_q4_values to its own result once more
returned_adjusted_twice(data) ==
    IF data = <<>> THEN <<>>
    ELSE adjust_q4_values(adjust_q4_values(filtered(data)))

\* how many times main.py:494-521 calls adjust_q4_values: the return of
\* main.py:495 comes before the call
adjust_applications(data) == IF data = <<>> THEN 0 ELSE 1

\* main.py:494-525
returned(data) ==
    IF data = <<>> THEN <<>>
    ELSE adjust_q4_values(filtered(data))

----------------------------------------------------------------------------
(* collect_quarterly_financials, main.py:288-321: the call with its        *)
(* arguments, up to the entry of the quarter-list loop                     *)

Entry(kind, year, quarter, fs_div, res) ==
    [kind |-> kind, year |-> year, quarter |-> quarter, fs_div |-> fs_div, res |-> res]

NoFutures == <<>>

Call(ym) ==
    /\ pc = "idle"
    /\ runs < MaxRuns
    /\ runs' = runs + 1
    /\ year_month' = ym
    /\ prev_year_month' = year_month
    /\ prev_result' = result
    /\ cache_at_call' = cache
    /\ adjust_calls' = 0
    /\ all_data' = <<>>
    /\ log' = <<>>
    /\ determined_fs_divs' = fs_divs
    /\ missing_tasks' = <<>>
    /\ api_tasks' = <<>>
    /\ submitted' = 0
    /\ futures' = NoFutures
    /\ loop_i' = 1
    /\ quarters_to_collect' = <<>>
    /\ IF ym # NoYearMonth
       THEN LET info == get_quarter_info(ym)
            IN  /\ end_year' = info.quarter_end_year
                /\ end_quarter' = IF info.quarter_end_month = 12 THEN 4 ELSE info.quarter
                /\ current_year' = start_year_of(info.quarter_end_year)
                /\ current_quarter' = 1
                /\ pc' = "range"
       ELSE /\ UNCHANGED <<end_year, end_quarter, current_year, current_quarter>>
            /\ pc' = "finish"
    /\ UNCHANGED <<adjustVars, poolVars, storeVars, result>>

(* one iteration of the loop `while True`, main.py:323-332 *)
CollectQuarter ==
    /\ pc = "range"
    /\ quarters_to_collect' = Append(quarters_to_collect, <<current_year, current_quarter>>)
    /\ IF current_year = end_year /\ current_quarter = end_quarter
       THEN /\ pc' = "lookup"
            /\ UNCHANGED <<current_year, current_quarter>>
       ELSE /\ pc' = "range"
            /\ IF current_quarter + 1 > 4
               THEN /\ current_quarter' = 1
                    /\ current_year' = current_year + 1
               ELSE /\ current_quarter' = current_quarter + 1
                    /\ UNCHANGED current_year
    /\ UNCHANGED <<adjustVars, poolVars, year_month, end_year, end_quarter, storeVars, runVars, histVars>>

----------------------------------------------------------------------------
(* main.py:353-391: one iteration of the cache-lookup loop *)

\* a lookup loop that gives the cell up at the lookup that raised
first_found_until_error(table, divs, year, report_code, raise_at) ==
    LET found == { k \in DOMAIN divs :
                     /\ raise_at = 0 \/ k < raise_at
                     /\ ~IsNone(get_financial_data_from_db(table, year, report_code, divs[k],
                                                           FALSE)) }
    IN  IF found = {} THEN 0 ELSE CHOOSE k \in found : \A j \in found : k <= j

\* the index in divs of the first fs_div the lookup returns rows for, 0 when
\* there is none: the loops of main.py:370-387 and main.py:436-447.  The
\* lookup of divs[raise_at] raises (raise_at = 0: none does)
first_found(table, divs, year, report_code, raise_at) ==
    LET found == { k \in DOMAIN divs :
                     ~IsNone(get_financial_data_from_db(table, year, report_code, divs[k],
                                                        k = raise_at)) }
    IN  IF found = {} THEN 0 ELSE CHOOSE k \in found : \A j \in found : k <= j

\* the number of lookups those loops issue
tried(divs, hit) == IF hit = 0 THEN Len(divs) ELSE hit

\* the lookups those loops issue, in order
lookups(kind, divs, hit, year, quarter, raise_at) ==
    [k \in 1..tried(divs, hit) |->
        Entry(kind, year, quarter, divs[k],
              IF k = raise_at THEN "error" ELSE IF k = hit THEN "hit" ELSE "none")]

\* the lookups of a loop over divs that can raise
MayRaiseAt(divs) == IF db_state = "faulty" THEN 0..Len(divs) ELSE {0}

\* what a save that raised leaves in the log
save_error(raised, year, quarter, fs_div) ==
    IF raised THEN <<Entry("save", year, quarter, fs_div, "error")>> ELSE <<>>

\* an element of all_data, main.py:373-377, 440-444 and 481-486
Loaded(df, fs_div, year, quarter, report_code) ==
    [df |-> df, fs_div |-> fs_div, year |-> year, quarter |-> quarter,
     report_code |-> report_code]

\* a cache hit that never narrows determined_fs_divs
narrowed_never(divs, fs_code) == divs

\* main.py:382-383
narrowed(divs, fs_code) ==
    IF fs_code = "CFS" /\ Len(divs) > 1 THEN <<"CFS">> ELSE divs

\* every cell appended, found in the cache or not
missing_after_always(missing, hit, task) == Append(missing, task)

\* a missed cell appended once per lookup loop and once more after it
missing_after_twice(missing, hit, task) ==
    IF hit = 0 THEN Append(Append(missing, task), task) ELSE missing

\* main.py:389-391: missing_tasks after the lookups of one cell
missing_after(missing, hit, task) ==
    IF hit = 0 THEN Append(missing, task) ELSE missing

\* main.py:394 and 399: where the main thread goes after the lookup loop
after_lookup(missing, divs) ==
    IF missing = <<>> THEN "finish"
    ELSE IF Len(divs) > 1 THEN "probe"
    ELSE "prepare"

LookupCell ==
    /\ pc = "lookup"
    /\ \E raise_at \in MayRaiseAt(determined_fs_divs) :
       LET target_year    == quarters_to_collect[loop_i][1]
           target_quarter == quarters_to_collect[loop_i][2]
           report_code    == report_code_of(target_quarter)
           current_check_divs == determined_fs_divs
           hit == first_found(cache, current_check_divs, target_year, report_code, raise_at)
           divs_after == IF hit = 0 THEN determined_fs_divs
                         ELSE narrowed(determined_fs_divs, current_check_divs[hit])
           missing_now ==
               missing_after(missing_tasks, hit,
                             [year |-> target_year, quarter |-> target_quarter,
                              report_code |-> report_code])
       IN  /\ raise_at <= tried(current_check_divs, hit)
           /\ db_state' = IF raise_at > 0 THEN "raised" ELSE db_state
           /\ log' = log \o lookups("db", current_check_divs, hit, target_year, target_quarter,
                                     raise_at)
           /\ all_data' =
                IF hit = 0 THEN all_data
                ELSE Append(all_data,
                            Loaded(get_financial_data_from_db(cache, target_year, report_code,
                                                              current_check_divs[hit], FALSE),
                                   current_check_divs[hit], target_year, target_quarter,
                                   report_code))
           /\ determined_fs_divs' = divs_after
           /\ missing_tasks' = missing_now
           /\ IF loop_i < Len(quarters_to_collect)
              THEN /\ loop_i' = loop_i + 1
                   /\ pc' = "lookup"
              ELSE /\ loop_i' = 1
                   /\ pc' = after_lookup(missing_now, divs_after)
    /\ UNCHANGED <<adjustVars, poolVars, resolverVars, remote, cache, failures, api_tasks, submitted,
                   futures, histVars>>

----------------------------------------------------------------------------
(* main.py:399-423: probing, one iteration of the loop over sorted_missing *)

Later(a, b) == a.year > b.year \/ (a.year = b.year /\ a.quarter > b.quarter)

\* missing_tasks probed in the order of the lookup loop, oldest cell first
sorted_missing_unsorted(tasks) == tasks

\* sorted(missing_tasks, key=lambda x: (x[0], x[1]), reverse=True), main.py:402
RECURSIVE sorted_missing(_)
sorted_missing(tasks) ==
    IF tasks = <<>> THEN <<>>
    ELSE LET m == CHOOSE i \in DOMAIN tasks :
                     /\ \A j \in DOMAIN tasks : ~Later(tasks[j], tasks[i])
                     /\ \A j \in 1..(i - 1) : Later(tasks[i], tasks[j])
         IN  <<tasks[m]>> \o sorted_missing(SubSeq(tasks, 1, m - 1) \o
                                            SubSeq(tasks, m + 1, Len(tasks)))

ProbeCell ==
    /\ pc = "probe"
    /\ LET t == sorted_missing(missing_tasks)[loop_i]
       IN  \E cfs_raised, ofs_raised, save_raised \in BOOLEAN :
             /\ cfs_raised => MayRaise(t.year, t.report_code, "CFS", 0)
             /\ save_raised => db_state = "faulty"
             /\ db_state' = IF save_raised THEN "raised" ELSE db_state
             /\ LET cfs_df == get_financial_data(t.year, t.report_code, "CFS", cfs_raised)
                    ofs_df == get_financial_data(t.year, t.report_code, "OFS", ofs_raised)
                    used   == IF cfs_raised THEN 1 ELSE 0
                IN  IF ~IsNone(cfs_df)
                    THEN /\ ~ofs_raised
                         /\ determined_fs_divs' = <<"CFS">>
                         /\ cache' = save_financial_data_to_db(cache, cfs_df, t.year, t.quarter,
                                                               t.report_code, "CFS", save_raised)
                         /\ log' = Append(log, Entry("probe", t.year, t.quarter, "CFS", "hit"))
                                      \o save_error(save_raised, t.year, t.quarter, "CFS")
                         /\ failures' = failures
                         /\ loop_i' = 1
                         /\ pc' = "prepare"
                    ELSE /\ ofs_raised => MayRaise(t.year, t.report_code, "OFS", used)
                         /\ failures' = failures + used + (IF ofs_raised THEN 1 ELSE 0)
                         /\ IF ~IsNone(ofs_df)
                            THEN /\ determined_fs_divs' = <<"OFS">>
                                 /\ cache' = save_financial_data_to_db(cache, ofs_df, t.year,
                                                 t.quarter, t.report_code, "OFS", save_raised)
                                 /\ log' = log \o
                                      <<Entry("probe", t.year, t.quarter, "CFS", "none"),
                                        Entry("probe", t.year, t.quarter, "OFS", "hit")>>
                                      \o save_error(save_raised, t.year, t.quarter, "OFS")
                                 /\ loop_i' = 1
                                 /\ pc' = "prepare"
                            ELSE /\ ~save_raised
                                 /\ UNCHANGED <<determined_fs_divs, cache>>
                                 /\ log' = log \o
                                      <<Entry("probe", t.year, t.quarter, "CFS", "none"),
                                        Entry("probe", t.year, t.quarter, "OFS", "none")>>
                                 /\ IF loop_i < Len(missing_tasks)
                                    THEN /\ loop_i' = loop_i + 1
                                         /\ pc' = "probe"
                                    ELSE /\ loop_i' = 1
                                         /\ pc' = "prepare"
    /\ UNCHANGED <<adjustVars, poolVars, resolverVars, remote, missing_tasks, all_data, api_tasks, submitted,
                   futures, histVars>>

----------------------------------------------------------------------------
(* main.py:426-461: one iteration of the loop that builds api_tasks *)

\* the tasks of a cell built from fs_divs instead of determined_fs_divs
tasks_of_all(t, divs) ==
    [k \in DOMAIN fs_divs |-> [year |-> t.year, report_code |-> t.report_code,
                               fs_code |-> fs_divs[k], quarter |-> t.quarter]]

\* every task of a cell listed twice
tasks_of_doubled(t, divs) ==
    [k \in 1..(2 * Len(divs)) |->
        [year |-> t.year, report_code |-> t.report_code,
         fs_code |-> divs[((k - 1) % Len(divs)) + 1], quarter |-> t.quarter]]

\* one task per cell, for the first basis of divs only
tasks_of_first(t, divs) ==
    <<[year |-> t.year, report_code |-> t.report_code, fs_code |-> divs[1],
       quarter |-> t.quarter]>>

\* main.py:453-461
tasks_of(t, divs) ==
    [k \in DOMAIN divs |-> [year |-> t.year, report_code |-> t.report_code,
                            fs_code |-> divs[k], quarter |-> t.quarter]]

\* future_to_task before any submit: no task has a future yet
new_futures(tasks) == [i \in DOMAIN tasks |-> [state |-> "new", df |-> None]]

PrepareTask ==
    /\ pc = "prepare"
    /\ \E raise_at \in MayRaiseAt(determined_fs_divs) :
       LET t   == missing_tasks[loop_i]
           hit == first_found(cache, determined_fs_divs, t.year, t.report_code, raise_at)
           tasks_after == IF hit = 0 THEN api_tasks \o tasks_of(t, determined_fs_divs)
                          ELSE api_tasks
       IN  /\ raise_at <= tried(determined_fs_divs, hit)
           /\ db_state' = IF raise_at > 0 THEN "raised" ELSE db_state
           /\ log' = log \o lookups("dbcheck", determined_fs_divs, hit, t.year, t.quarter,
                                     raise_at)
           /\ all_data' =
                IF hit = 0 THEN all_data
                ELSE Append(all_data,
                            Loaded(get_financial_data_from_db(cache, t.year, t.report_code,
                                                              determined_fs_divs[hit], FALSE),
                                   determined_fs_divs[hit], t.year, t.quarter, t.report_code))
           /\ api_tasks' = tasks_after
           /\ IF loop_i < Len(missing_tasks)
              THEN /\ loop_i' = loop_i + 1
                   /\ pc' = "prepare"
                   /\ UNCHANGED futures
              ELSE /\ loop_i' = 1
                   /\ pc' = IF tasks_after # <<>> THEN "pool" ELSE "finish"
                   /\ futures' = new_futures(tasks_after)
    /\ UNCHANGED <<adjustVars, poolVars, resolverVars, remote, cache, failures, determined_fs_divs,
                   missing_tasks, submitted, histVars>>

----------------------------------------------------------------------------
(* main.py:464-491: the thread pool.  A future is "new" before              *)
(* executor.submit takes its task, "queued" in the executor's work queue,   *)
(* "running" while a worker thread is inside get_financial_data,            *)
(* "finished" when its result is set, "processed" when the as_completed     *)
(* loop has handled it.                                                     *)

\* max_workers, main.py:465
max_workers == 20

InState(fs, st) == { i \in DOMAIN fs : fs[i].state = st }

\* a pool none of whose threads ever takes a queued task
worker_available_never(running) == FALSE

\* a pool that starts a queued task whatever the number of running ones
worker_available_always(running) == TRUE

\* ThreadPoolExecutor(max_workers=20), main.py:465: a queued task starts
\* only while fewer than max_workers tasks are running
worker_available(running) == running < max_workers

\* a loop that ends at the first future that carries no statement
as_completed_done_or_none(fs) ==
    \/ \A i \in DOMAIN fs : fs[i].state = "processed"
    \/ \E i \in DOMAIN fs : fs[i].state = "processed" /\ IsNone(fs[i].df)

\* main.py:471: the loop over as_completed ends when it has yielded every
\* future of future_to_task
as_completed_done(fs) == \A i \in DOMAIN fs : fs[i].state = "processed"

\* executor.submit in the dict comprehension, main.py:466-469
SubmitTask ==
    /\ pc = "pool"
    /\ submitted < Len(api_tasks)
    /\ submitted' = submitted + 1
    /\ futures' = [futures EXCEPT ![submitted + 1].state = "queued"]
    /\ UNCHANGED <<adjustVars, poolVars, pc, resolverVars, storeVars, determined_fs_divs, missing_tasks, all_data,
                   loop_i, api_tasks, log, histVars>>

\* a worker thread takes the oldest queued task and sends its request; the
\* executor runs at most max_workers threads
WorkerStart ==
    /\ pc = "pool"
    /\ InState(futures, "queued") # {}
    /\ worker_available(Cardinality(InState(futures, "running")))
    /\ LET i == CHOOSE k \in InState(futures, "queued") :
                   \A j \in InState(futures, "queued") : k <= j
           t == api_tasks[i]
       IN  /\ futures' = [futures EXCEPT ![i].state = "running"]
           /\ log' = Append(log, Entry("api", t.year, t.quarter, t.fs_code, "sent"))
    /\ UNCHANGED <<adjustVars, poolVars, pc, resolverVars, storeVars, determined_fs_divs, missing_tasks, all_data,
                   loop_i, api_tasks, submitted, histVars>>

\* get_financial_data returns in a worker thread
WorkerFinish ==
    /\ pc = "pool"
    /\ \E i \in InState(futures, "running") : \E raised \in BOOLEAN :
         LET t == api_tasks[i]
         IN  /\ raised => MayRaise(t.year, t.report_code, t.fs_code, 0)
             /\ failures' = failures + (IF raised THEN 1 ELSE 0)
             /\ futures' = [futures EXCEPT
                              ![i] = [state |-> "finished",
                                      df |-> get_financial_data(t.year, t.report_code,
                                                                t.fs_code, raised)]]
    /\ UNCHANGED <<adjustVars, poolVars, pc, resolverVars, remote, cache, db_state, runVarsButFutures,
                   histVars>>

\* one iteration of the loop over as_completed, main.py:471-491
ProcessCompleted ==
    /\ pc = "pool"
    /\ submitted = Len(api_tasks)
    /\ \E i \in InState(futures, "finished") : \E save_raised \in BOOLEAN :
         LET task == api_tasks[i]
             df   == futures[i].df
         IN  /\ save_raised => (db_state = "faulty" /\ ~IsNone(df))
             /\ db_state' = IF save_raised THEN "raised" ELSE db_state
             /\ log' = log \o save_error(save_raised, task.year, task.quarter, task.fs_code)
             /\ futures' = [futures EXCEPT ![i].state = "processed"]
             /\ IF ~IsNone(df)
                THEN /\ cache' = save_financial_data_to_db(cache, df, task.year, task.quarter,
                                                           task.report_code, task.fs_code,
                                                           save_raised)
                     /\ all_data' = Append(all_data,
                                           Loaded(df, task.fs_code, task.year, task.quarter,
                                                  task.report_code))
                ELSE UNCHANGED <<cache, all_data>>
    /\ UNCHANGED <<adjustVars, poolVars, pc, resolverVars, remote, failures, determined_fs_divs, missing_tasks,
                   loop_i, api_tasks, submitted, histVars>>

\* the as_completed loop has yielded every future and the with block ends
PoolExit ==
    /\ pc = "pool"
    /\ submitted = Len(api_tasks)
    /\ as_completed_done(futures)
    /\ pc' = "finish"
    /\ UNCHANGED <<adjustVars, poolVars, resolverVars, storeVars, runVars, histVars>>

----------------------------------------------------------------------------
(* main.py:494-525: the return *)

Return ==
    /\ pc = "finish"
    /\ result' = returned(all_data)
    /\ adjust_calls' = adjust_calls + adjust_applications(all_data)
    /\ pc' = "idle"
    /\ UNCHANGED <<adjustVars, poolVars, resolverVars, storeVars, runVars, runs, cache_at_call, prev_result,
                   prev_year_month>>

----------------------------------------------------------------------------
(* Initial states.  The cache file outlives the process, so a behaviour     *)
(* starts from a cache earlier calls have filled: the statements of the     *)
(* four years before BaseYear are cached, all under one fs_div, and the     *)
(* quarters of BaseYear are not.  The remote source holds what the cache    *)
(* was filled from, and any of Statements, or nothing, for each quarter     *)
(* of ActiveQuarters of BaseYear under each fs_div.                         *)

\* the statements the remote source may hold for a quarter of BaseYear
Statements ==
    { ("ifrs-full_Revenue" :> Num(7)) @@ (OtherItem :> Num(3)),
      ("ifrs-full_Revenue" :> NaN),
      (OtherItem :> Num(3)) }

\* the quarters of BaseYear the remote source may hold statements for
ActiveQuarters == {1, 2}

\* the statement of a year before BaseYear: the fourth quarter is cumulative
OldStatement(quarter) ==
    ("ifrs-full_Revenue" :> Num(IF quarter = 4 THEN 10 ELSE 2))

ReportCodes == { report_code_of(q) : q \in 1..4 }
FsDivSet == { fs_divs[i] : i \in DOMAIN fs_divs }
OldYears == (BaseYear - 4)..(BaseYear - 1)
RemoteKeys == ((BaseYear - 5)..BaseYear) \X ReportCodes \X FsDivSet
ActiveKeys == { k \in RemoteKeys : k[1] = BaseYear /\ quarter_map(k[2]) \in ActiveQuarters }

InitRun ==
    /\ pc = "idle"
    /\ year_month = NoYearMonth
    /\ end_year = 0
    /\ end_quarter = 0
    /\ current_year = 0
    /\ current_quarter = 0
    /\ quarters_to_collect = <<>>
    /\ failures = 0
    /\ runs = 0
    /\ determined_fs_divs = fs_divs
    /\ missing_tasks = <<>>
    /\ all_data = <<>>
    /\ loop_i = 1
    /\ api_tasks = <<>>
    /\ submitted = 0
    /\ futures = NoFutures
    /\ result = <<>>
    /\ log = <<>>
    /\ prev_result = <<>>
    /\ prev_year_month = NoYearMonth
    /\ adjust_calls = 0
    /\ adj_rows = {}
    /\ adj_in = <<>>
    /\ adj_out = <<>>
    /\ adj_again = <<>>
    /\ pool_tasks = 0
    /\ pool_submitted = 0
    /\ pool_queued = 0
    /\ pool_running = 0
    /\ pool_finished = 0
    /\ pool_processed = 0
    /\ pool_failed = FALSE

\* the remote source and the cache filled from it, the quarters of BaseYear
\* holding any of stmts or nothing
InitStore(stmts) ==
    /\ \E old_fs \in FsDivSet : \E act \in [ActiveKeys -> stmts \cup {None}] :
         /\ remote = [k \in RemoteKeys |->
                        IF k[1] \in OldYears
                        THEN IF k[3] = old_fs THEN OldStatement(quarter_map(k[2])) ELSE None
                        ELSE IF k \in ActiveKeys THEN act[k]
                        ELSE None]
         /\ cache = UNION { data_to_insert(OldStatement(quarter_map(k[2])), k[1],
                                           quarter_map(k[2]), k[2], k[3])
                            : k \in { x \in RemoteKeys : x[1] \in OldYears /\ x[3] = old_fs } }
    /\ cache_at_call = cache

Init ==
    /\ InitRun
    /\ db_state = "ok"
    /\ InitStore(Statements)

\* the anchors of the calls: a month inside the second quarter of BaseYear, and
\* a call without year_month
PipelineAnchors == { BaseYear * 100 + 5, NoYearMonth }

CallPipeline == \E ym \in PipelineAnchors : Call(ym)

Next ==
    \/ CallPipeline
    \/ CollectQuarter
    \/ LookupCell
    \/ ProbeCell
    \/ PrepareTask
    \/ SubmitTask
    \/ WorkerStart
    \/ WorkerFinish
    \/ ProcessCompleted
    \/ PoolExit
    \/ Return

Spec == Init /\ [][Next]_vars

----------------------------------------------------------------------------
(* Properties of the pipeline, checked under Spec *)

Records(df) == { df[i] : i \in DOMAIN df }
Requests == { i \in DOMAIN log : log[i].kind \in {"probe", "api"} }
Probes == { i \in DOMAIN log : log[i].kind = "probe" }
ApiCalls == { i \in DOMAIN log : log[i].kind = "api" }
SameCell(e1, e2) == e1.year = e2.year /\ e1.quarter = e2.quarter
SameTriple(e1, e2) == SameCell(e1, e2) /\ e1.fs_div = e2.fs_div
Returned == pc = "idle" /\ runs >= 1

\* C1: two consecutive calls with the same year_month, neither of them hit by
\* a transport error and with the remote statements unchanged, return the
\* same set of (year, quarter, basis, account, amount) records.
C1_SecondRunSameRecords ==
    (Returned /\ runs >= 2 /\ prev_year_month = year_month /\ failures = 0)
        => Records(result) = Records(prev_result)

\* C2: no remote request (probe or bulk) of a call is for a (year, quarter)
\* cell the cache held a row of, under either fs_div, when the call started.
C2_NoRequestForCachedCell ==
    \A i \in Requests :
        ~\E r \in cache_at_call : r.year = log[i].year /\ r.quarter = log[i].quarter

\* C3: once determined_fs_divs holds a single basis it does not change for
\* the rest of the call, and every cache lookup and remote request issued
\* from then on is for that basis.
C3_BasisFixedOnceDetermined ==
    [][ (pc # "idle" /\ Len(determined_fs_divs) = 1)
          => /\ determined_fs_divs' = determined_fs_divs
             /\ \A i \in (Len(log) + 1)..Len(log') :
                    log'[i].fs_div = determined_fs_divs[1] ]_vars

\* C3 witness: the prober fixed the basis and a bulk request followed it
C3_Witness ==
    /\ Len(determined_fs_divs) = 1
    /\ \E i \in Probes : /\ log[i].res = "hit"
                         /\ \E j \in ApiCalls : j > i

\* C4 as stated: a call that loaded some cell from the cache, under either
\* basis, issues no probe request.
C4_NoProbeAfterAnyCacheHit ==
    (Probes # {}) => ~\E i \in DOMAIN log : log[i].kind = "db" /\ log[i].res = "hit"

\* C4 amended: probing runs only while determined_fs_divs still holds both
\* bases, and a call that loaded some cell from the cache under CFS issues
\* no probe request.
C4_NoProbeAfterCfsHit ==
    /\ pc = "probe" => Len(determined_fs_divs) = 2
    /\ (Probes # {}) =>
          ~\E i \in DOMAIN log :
               log[i].kind = "db" /\ log[i].res = "hit" /\ log[i].fs_div = "CFS"

\* C4 witness: cells are missing after a lookup phase that hit the cache
\* under CFS, and the call goes on without probing
C4_Witness ==
    /\ pc = "prepare"
    /\ missing_tasks # <<>>
    /\ Probes = {}
    /\ \E i \in DOMAIN log : log[i].kind = "db" /\ log[i].res = "hit" /\ log[i].fs_div = "CFS"

\* C5: a cell the prober got a statement for is in the cache under the basis
\* that answered, and the bulk fetch of the same call issues no request for it.
C5_ProbedCellCachedAndNotRefetched ==
    \A i \in Probes :
        log[i].res = "hit" =>
            /\ \E r \in cache : /\ r.year = log[i].year
                                /\ r.quarter = log[i].quarter
                                /\ r.fs_div = log[i].fs_div
            /\ ~\E j \in ApiCalls : SameCell(log[j], log[i])

\* C6 as stated: at most one remote request per (year, quarter, basis) in a
\* call, probing and bulk fetch counted together.
C6_AtMostOneRequestPerRun ==
    \A i, j \in Requests : SameTriple(log[i], log[j]) => i = j

\* C6 amended: at most one probe request and at most one bulk request per
\* (year, quarter, basis) in a call.
C6_AtMostOneRequestPerPhase ==
    /\ \A i, j \in Probes : SameTriple(log[i], log[j]) => i = j
    /\ \A i, j \in ApiCalls : SameTriple(log[i], log[j]) => i = j

\* C6 witness: a request the prober got nothing for was issued once more by
\* the bulk fetch, came back with nothing again, and the pool is done
C6_Witness ==
    /\ pc = "finish"
    /\ \E i \in Probes : \E k \in DOMAIN futures :
         /\ log[i].res = "none"
         /\ futures[k].state = "processed"
         /\ IsNone(futures[k].df)
         /\ api_tasks[k].year = log[i].year
         /\ api_tasks[k].quarter = log[i].quarter
         /\ api_tasks[k].fs_code = log[i].fs_div

----------------------------------------------------------------------------
(* The quarter-list loop alone, for every anchor of ResolverAnchors *)

InitResolver ==
    /\ InitRun
    /\ remote = [k \in RemoteKeys |-> None]
    /\ cache = {}
    /\ cache_at_call = {}
    /\ db_state = "ok"

ResolverAnchors == { y * 100 + m : y \in (BaseYear - 1)..BaseYear, m \in 0..MaxMonth }

CallResolver == \E ym \in ResolverAnchors : Call(ym)

NextResolver == CallResolver \/ CollectQuarter

\* C7: for an anchor whose month is in 1..12 the loop leaves in
\* quarters_to_collect exactly the cells from (anchor year - 4, Q1) to
\* (anchor year, quarter of the month), in increasing order, without
\* duplicates and without gaps.
ExpectedCells(year, last_quarter) ==
    [i \in 1..(16 + last_quarter) |-> <<year - 4 + ((i - 1) \div 4), ((i - 1) % 4) + 1>>]

Before(c1, c2) == c1[1] < c2[1] \/ (c1[1] = c2[1] /\ c1[2] < c2[2])

SpecResolver == InitResolver /\ [][NextResolver]_vars

\* C16 as stated: whatever the anchor, the loop leaves exactly 17 cells in
\* quarters_to_collect.
C16_SeventeenCells ==
    pc = "lookup" => Len(quarters_to_collect) = 17

\* C16 amended: the loop leaves 16 cells for the four years before the
\* anchor year and one cell per quarter of the anchor year up to the
\* resolved quarter: 16 + end_quarter cells, between 17 and 20, 17 only for
\* an anchor resolved to the first quarter.
C16_CellCount ==
    pc = "lookup" =>
        /\ Len(quarters_to_collect) = 16 + end_quarter
        /\ Len(quarters_to_collect) \in 17..20
        /\ (year_month % 100) \in 1..12 =>
              Len(quarters_to_collect) = 16 + (((year_month % 100) + 2) \div 3)
        /\ Len(quarters_to_collect) = 17 <=> (year_month % 100) <= 3

\* C16 witness: anchor BaseYear12 gives 20 cells
C16_Witness ==
    /\ pc = "lookup"
    /\ year_month = BaseYear * 100 + 12
    /\ Len(quarters_to_collect) = 20

\* C17: for an anchor whose month is outside 1..12 no quarter list is
\* produced and the cache-lookup loop is not entered.
C17_InvalidMonthRejected ==
    (year_month # NoYearMonth /\ (year_month % 100) \notin 1..12) =>
        /\ quarters_to_collect = <<>>
        /\ pc # "lookup"

----------------------------------------------------------------------------
(* adjust_q4_values alone: a DataFrame of at most MaxRows rows is drawn row *)
(* by row from AdjustRows and given to the function                        *)

\* the amounts reported for the quarters: the fourth is the year's total
ReportedAmount(quarter) ==
    IF quarter = 1 THEN 100
    ELSE IF quarter = 2 THEN 120
    ELSE IF quarter = 3 THEN 90
    ELSE 400

Row(year, quarter, fs_div, account_id, amount) ==
    [year |-> year, quarter |-> quarter, fs_div |-> fs_div, account_id |-> account_id,
     thstrm_amount |-> amount]

AdjustRows ==
    { Row(y, q, f, a, Num(ReportedAmount(q))) :
        y \in (BaseYear - 1)..BaseYear, q \in 1..4, f \in FsDivSet, a \in KeyItemSet }
    \cup { Row(BaseYear, 1, "CFS", "ifrs-full_Revenue", NaN),
           Row(BaseYear, 4, "CFS", "ifrs-full_Revenue", NaN) }

InitAdjust ==
    /\ InitRun
    /\ pc = "idle"
    /\ remote = [k \in RemoteKeys |-> None]
    /\ cache = {}
    /\ cache_at_call = {}
    /\ db_state = "ok"

AddRow ==
    /\ pc = "idle"
    /\ Cardinality(adj_rows) < MaxRows
    /\ \E r \in AdjustRows \ adj_rows : adj_rows' = adj_rows \cup {r}
    /\ UNCHANGED <<pc, adj_in, adj_out, adj_again, resolverVars, storeVars, runVars, histVars,
                   poolVars>>

Adjust ==
    /\ pc = "idle"
    /\ adj_in' = SetToSeq(adj_rows)
    /\ adj_out' = adjust_q4_values(SetToSeq(adj_rows))
    /\ pc' = "adjusted"
    /\ UNCHANGED <<adj_rows, adj_again, resolverVars, storeVars, runVars, histVars, poolVars>>

\* adjust_q4_values given the DataFrame it returned
AdjustAgain ==
    /\ pc = "adjusted"
    /\ adj_again' = adjust_q4_values(adj_out)
    /\ pc' = "adjusted_twice"
    /\ UNCHANGED <<adj_rows, adj_in, adj_out, resolverVars, storeVars, runVars, histVars,
                   poolVars>>

NextAdjust == AddRow \/ Adjust \/ AdjustAgain

SpecAdjust == InitAdjust /\ [][NextAdjust]_vars

RECURSIVE SumAmounts(_, _)
SumAmounts(df, idx) ==
    IF idx = {} THEN 0
    ELSE LET i == CHOOSE k \in idx : TRUE
         IN  (IF df[i].thstrm_amount = NaN THEN 0 ELSE df[i].thstrm_amount[1])
             + SumAmounts(df, idx \ {i})

\* the Q1-Q3 rows of the (year, account, basis) group of row r
GroupQ1Q3(df, r) ==
    { k \in DOMAIN df : /\ df[k].year = r.year
                        /\ df[k].account_id = r.account_id
                        /\ df[k].fs_div = r.fs_div
                        /\ df[k].quarter \in 1..3 }

\* C8: the adjuster changes nothing but Q4 amounts; a Q4 amount becomes the
\* reported amount minus the sum of the Q1-Q3 amounts of its (year, account,
\* basis) group, a missing quarter adding nothing; it stays as reported when
\* its year has no Q1-Q3 row; and this is so in every year of the DataFrame.
C8_Q4Adjusted ==
    pc = "adjusted" =>
        /\ Len(adj_out) = Len(adj_in)
        /\ \A i \in DOMAIN adj_in :
             LET r == adj_in[i]
                 o == adj_out[i]
             IN  /\ [o EXCEPT !.thstrm_amount = r.thstrm_amount] = r
                 /\ r.quarter # 4 => o = r
                 /\ (r.quarter = 4 /\ r.thstrm_amount # NaN) =>
                       o.thstrm_amount =
                          Num(r.thstrm_amount[1] - SumAmounts(adj_in, GroupQ1Q3(adj_in, r)))
                 /\ (r.quarter = 4 /\ ~\E k \in DOMAIN adj_in :
                                         adj_in[k].year = r.year /\ adj_in[k].quarter \in 1..3)
                       => o = r

\* C8 witness: Q1=100, Q2=120, Q3=90 and Q4=400 of one group, in the year
\* before BaseYear, give Q4=90
C8_Witness ==
    /\ pc = "adjusted"
    /\ \A q \in 1..3 : \E i \in DOMAIN adj_in :
          adj_in[i] = Row(BaseYear - 1, q, "CFS", "ifrs-full_Revenue", Num(ReportedAmount(q)))
    /\ \E i \in DOMAIN adj_in :
          /\ adj_in[i] = Row(BaseYear - 1, 4, "CFS", "ifrs-full_Revenue", Num(400))
          /\ adj_out[i] = Row(BaseYear - 1, 4, "CFS", "ifrs-full_Revenue", Num(90))

\* C19 as stated: adjust_q4_values given its own result returns it unchanged.
C19_AdjustIdempotent ==
    pc = "adjusted_twice" => adj_again = adj_out

\* C19 amended: adjust_q4_values given its own result subtracts the sum of
\* the Q1-Q3 amounts of each (year, account, basis) group from the Q4
\* amount once more and leaves the other rows as they are; the second
\* result equals the first exactly when every Q4 amount that is a number
\* has a Q1-Q3 sum of zero.
C19_SecondAdjustSubtractsAgain ==
    pc = "adjusted_twice" =>
        /\ Len(adj_again) = Len(adj_in)
        /\ \A i \in DOMAIN adj_in :
             LET r == adj_in[i]
                 t == adj_again[i]
             IN  /\ r.quarter # 4 => t = r
                 /\ (r.quarter = 4 /\ r.thstrm_amount = NaN) => t = r
                 /\ (r.quarter = 4 /\ r.thstrm_amount # NaN) =>
                       t = [r EXCEPT !.thstrm_amount =
                              Num(r.thstrm_amount[1]
                                  - 2 * SumAmounts(adj_in, GroupQ1Q3(adj_in, r)))]
        /\ adj_again = adj_out <=>
              \A i \in DOMAIN adj_in :
                  (adj_in[i].quarter = 4 /\ adj_in[i].thstrm_amount # NaN) =>
                      SumAmounts(adj_in, GroupQ1Q3(adj_in, adj_in[i])) = 0

\* C19 witness: Q1=100, Q2=120, Q3=90 and Q4=400 of one group give Q4=90 and
\* then Q4=-220
C19_Witness ==
    /\ pc = "adjusted_twice"
    /\ \E i \in DOMAIN adj_in :
          /\ adj_in[i] = Row(BaseYear - 1, 4, "OFS", "ifrs-full_Revenue", Num(400))
          /\ adj_out[i].thstrm_amount = Num(90)
          /\ adj_again[i].thstrm_amount = Num(0 - 220)

----------------------------------------------------------------------------
(* The thread pool of main.py:464-491 by numbers: how many tasks are in     *)
(* each state of SubmitTask, WorkerStart, WorkerFinish, ProcessCompleted    *)
(* and PoolExit, for task lists of the lengths of PoolSizes                 *)

\* the lengths of api_tasks drawn: one task, one more than max_workers, and
\* MaxPoolTasks
PoolSizes == { 1, max_workers + 1, MaxPoolTasks }

InitPool ==
    /\ InitAdjust

PoolOpen ==
    /\ pc = "idle"
    /\ \E n \in PoolSizes : pool_tasks' = n
    /\ pc' = "pool"
    /\ UNCHANGED <<pool_submitted, pool_queued, pool_running, pool_finished, pool_processed,
                   pool_failed, resolverVars, storeVars, runVars, histVars, adjustVars>>

PoolSubmit ==
    /\ pc = "pool"
    /\ pool_submitted < pool_tasks
    /\ pool_submitted' = pool_submitted + 1
    /\ pool_queued' = pool_queued + 1
    /\ UNCHANGED <<pc, pool_tasks, pool_running, pool_finished, pool_processed, pool_failed,
                   resolverVars, storeVars, runVars, histVars, adjustVars>>

PoolStart ==
    /\ pc = "pool"
    /\ pool_queued > 0
    /\ worker_available(pool_running)
    /\ pool_queued' = pool_queued - 1
    /\ pool_running' = pool_running + 1
    /\ UNCHANGED <<pc, pool_tasks, pool_submitted, pool_finished, pool_processed, pool_failed,
                   resolverVars, storeVars, runVars, histVars, adjustVars>>

PoolFinish ==
    /\ pc = "pool"
    /\ pool_running > 0
    /\ pool_running' = pool_running - 1
    /\ pool_finished' = pool_finished + 1
    /\ \E raised \in BOOLEAN : pool_failed' = (pool_failed \/ raised)
    /\ UNCHANGED <<pc, pool_tasks, pool_submitted, pool_queued, pool_processed,
                   resolverVars, storeVars, runVars, histVars, adjustVars>>

PoolYield ==
    /\ pc = "pool"
    /\ pool_submitted = pool_tasks
    /\ pool_finished > 0
    /\ pool_finished' = pool_finished - 1
    /\ pool_processed' = pool_processed + 1
    /\ UNCHANGED <<pc, pool_tasks, pool_submitted, pool_queued, pool_running, pool_failed,
                   resolverVars, storeVars, runVars, histVars, adjustVars>>

PoolReturn ==
    /\ pc = "pool"
    /\ pool_submitted = pool_tasks
    /\ pool_processed = pool_tasks
    /\ pc' = "finish"
    /\ UNCHANGED <<poolVars, resolverVars, storeVars, runVars, histVars, adjustVars>>

NextPool == PoolOpen \/ PoolSubmit \/ PoolStart \/ PoolFinish \/ PoolYield \/ PoolReturn

SpecPool == InitPool /\ [][NextPool]_vars

\* C9: at every moment of the bulk fetch at most 20 remote calls are in
\* flight, whatever the number of tasks.
C9_AtMostTwentyInFlight == pool_running <= 20

\* C9 witness: 40 tasks, 20 of them in flight and others waiting for a worker
C9_Witness ==
    /\ pool_tasks = 40
    /\ pool_running = 20
    /\ pool_queued > 0

----------------------------------------------------------------------------
(* C10, checked under Spec *)

\* C10: when the bulk fetch has returned, every task of api_tasks was
\* submitted, has completed and was handled by the loop, none is queued or
\* running, and every statement a task brought is in all_data; a task that
\* ended in an error holds back none of this.
C10_ReturnsAfterAllTasks ==
    (pc = "finish" /\ api_tasks # <<>>) =>
        /\ submitted = Len(api_tasks)
        /\ DOMAIN futures = DOMAIN api_tasks
        /\ \A i \in DOMAIN futures :
             /\ futures[i].state = "processed"
             /\ ~IsNone(futures[i].df) =>
                   \E k \in DOMAIN all_data :
                       all_data[k] = Loaded(futures[i].df, api_tasks[i].fs_code,
                                            api_tasks[i].year, api_tasks[i].quarter,
                                            api_tasks[i].report_code)

\* C10 witness: the bulk fetch returned after a task that ended in a
\* transport error and another that brought its statement
C10_Witness ==
    /\ pc = "finish"
    /\ \E i, j \in DOMAIN futures :
         /\ IsNone(futures[i].df)
         /\ ~IsNone(remote[RemoteKey(api_tasks[i].year, api_tasks[i].report_code,
                                     api_tasks[i].fs_code)])
         /\ ~IsNone(futures[j].df)
         /\ futures[j].state = "processed"

----------------------------------------------------------------------------
(* The phases of a call, checked under Spec *)

MissingCells == { missing_tasks[k] : k \in DOMAIN missing_tasks }

\* the key items of the statement the remote source holds for a log entry
KeyItemsAt(e) ==
    KeyItemSet \cap DOMAIN remote[RemoteKey(e.year, report_code_of(e.quarter), e.fs_div)]

\* C11: the prober goes through the missing cells from the latest (year,
\* quarter) to the earliest and asks for CFS before OFS on each cell; an OFS
\* request directly follows the CFS request of the same cell that came back
\* with nothing; the first request that brings a statement is the last probe
\* request of the call, determined_fs_divs becomes the basis that answered,
\* and the key items of that statement are in the cache under that cell and
\* basis.
C11_ProbeOrder ==
    /\ \A i \in Probes :
         /\ log[i].fs_div = "OFS" =>
               /\ i - 1 \in Probes
               /\ SameCell(log[i - 1], log[i])
               /\ log[i - 1].fs_div = "CFS"
               /\ log[i - 1].res = "none"
         /\ (log[i].fs_div = "CFS" /\ log[i].res = "none") =>
               /\ i + 1 \in Probes
               /\ SameCell(log[i + 1], log[i])
               /\ log[i + 1].fs_div = "OFS"
         /\ \A t \in MissingCells :
               Later(t, log[i]) => \E j \in Probes : j < i /\ SameCell(log[j], t)
         /\ \E t \in MissingCells : SameCell(log[i], t)
         /\ log[i].res = "hit" =>
               /\ \A j \in Probes : j <= i
               /\ determined_fs_divs = <<log[i].fs_div>>
               /\ \A a \in KeyItemsAt(log[i]) :
                     \E r \in cache : /\ r.year = log[i].year
                                      /\ r.quarter = log[i].quarter
                                      /\ r.fs_div = log[i].fs_div
                                      /\ r.account_id = a
    /\ \A i, j \in Probes :
         i < j => (SameCell(log[i], log[j]) \/ Later(log[i], log[j]))

\* C11 witness: the latest missing cell brought nothing under either basis,
\* and the OFS request of an earlier cell brought a statement that is now in
\* the cache
C11_Witness ==
    \E i, j \in Probes :
        /\ i < j
        /\ Later(log[i], log[j])
        /\ log[j].fs_div = "OFS"
        /\ log[j].res = "hit"
        /\ KeyItemsAt(log[j]) # {}
        /\ \E r \in cache : /\ r.year = log[j].year
                            /\ r.quarter = log[j].quarter
                            /\ r.fs_div = "OFS"

\* the missing cells the lookup after probing did not find in the cache
StillMissing ==
    { t \in MissingCells :
        ~\E i \in DOMAIN log : /\ log[i].kind = "dbcheck"
                               /\ log[i].res = "hit"
                               /\ SameCell(log[i], t) }

TasksOfCell(t) ==
    { k \in DOMAIN api_tasks : api_tasks[k].year = t.year /\ api_tasks[k].quarter = t.quarter }

\* C12: when the task list is built, a cell that is still missing has one
\* task, for the determined basis, when determined_fs_divs holds one basis,
\* and two tasks, CFS then OFS, when it holds both; a missing cell found in
\* the cache after probing has none, and there is no other task; and when no
\* probe request brought a statement determined_fs_divs still holds both
\* bases, so that every cell still missing is asked for under both.
C12_TasksPerCell ==
    /\ pc \in {"pool", "finish"} =>
         /\ \A t \in MissingCells :
              IF t \in StillMissing
              THEN IF Len(determined_fs_divs) = 1
                   THEN \E k \in DOMAIN api_tasks :
                           /\ TasksOfCell(t) = {k}
                           /\ api_tasks[k].fs_code = determined_fs_divs[1]
                           /\ api_tasks[k].report_code = t.report_code
                   ELSE \E k \in DOMAIN api_tasks :
                           /\ TasksOfCell(t) = {k, k + 1}
                           /\ api_tasks[k].fs_code = "CFS"
                           /\ api_tasks[k + 1].fs_code = "OFS"
                           /\ api_tasks[k].report_code = t.report_code
                           /\ api_tasks[k + 1].report_code = t.report_code
              ELSE TasksOfCell(t) = {}
         /\ \A k \in DOMAIN api_tasks : \E t \in MissingCells : k \in TasksOfCell(t)
    /\ (Probes # {} /\ \A i \in Probes : log[i].res = "none") =>
         /\ determined_fs_divs = fs_divs
         /\ pc \in {"pool", "finish"} =>
               \A t \in StillMissing : Cardinality(TasksOfCell(t)) = 2

\* C12 witness: probing brought nothing for two missing cells, and the task
\* list holds four tasks
C12_Witness ==
    /\ pc = "pool"
    /\ Probes # {}
    /\ \A i \in Probes : log[i].res = "none"
    /\ Len(missing_tasks) = 2
    /\ Len(api_tasks) = 4

\* the rows of a table under the key of a task
RowsOfTask(table, t) ==
    { r \in table : r.year = t.year /\ r.report_code = t.report_code /\ r.fs_div = t.fs_code }

\* the as_completed loop handles future i in this step
Handled(i) ==
    /\ pc = "pool"
    /\ futures[i].state = "finished"
    /\ futures'[i].state = "processed"

\* C13: when the as_completed loop handles a task that brought a statement,
\* the key items of the statement are written to the cache under the year,
\* report code and basis of that task, with their amounts, no row of another
\* key changes, and the statement is appended to all_data; when it handles a
\* task that brought none (absent or failed) the cache and all_data stay as
\* they are; and nothing else changes them during the bulk fetch.
C13_CompletedTaskStoredAndMerged ==
    [][ /\ \A i \in DOMAIN futures :
             Handled(i) =>
                LET t  == api_tasks[i]
                    df == futures[i].df
                IN  IF ~IsNone(df)
                    THEN /\ \A a \in KeyItemSet \cap DOMAIN df :
                              \E r \in RowsOfTask(cache', t) :
                                  /\ r.account_id = a
                                  /\ r.quarter = t.quarter
                                  /\ notna(df[a]) => r.thstrm_amount = df[a][1]
                         /\ cache' \ RowsOfTask(cache', t) = cache \ RowsOfTask(cache, t)
                         /\ all_data' = Append(all_data,
                                               Loaded(df, t.fs_code, t.year, t.quarter,
                                                      t.report_code))
                    ELSE /\ cache' = cache
                         /\ all_data' = all_data
        /\ (pc = "pool" /\ (cache' # cache \/ all_data' # all_data)) =>
               \E i \in DOMAIN futures : Handled(i) /\ ~IsNone(futures[i].df) ]_vars

\* C13 witness: the loop has handled an OFS task whose statement is now in
\* the cache and in all_data, and a task that brought nothing
C13_Witness ==
    /\ pc = "pool"
    /\ \E i, j \in DOMAIN futures :
         /\ futures[i].state = "processed"
         /\ api_tasks[i].fs_code = "OFS"
         /\ ~IsNone(futures[i].df)
         /\ RowsOfTask(cache, api_tasks[i]) # {}
         /\ \E k \in DOMAIN all_data : all_data[k].df = futures[i].df
         /\ futures[j].state = "processed"
         /\ IsNone(futures[j].df)

\* the remote call of task i ended in a transport error: the source holds a
\* statement and the future holds none
TransportError(i) ==
    /\ futures[i].state \in {"finished", "processed"}
    /\ IsNone(futures[i].df)
    /\ ~IsNone(remote[RemoteKey(api_tasks[i].year, api_tasks[i].report_code,
                                api_tasks[i].fs_code)])

CacheHits == { i \in DOMAIN log : log[i].kind \in {"db", "dbcheck"} /\ log[i].res = "hit" }

\* C15: a remote call that ends in a transport error gives None, as an
\* absent statement does, for its own cell and basis only: every future
\* holds None or the statement the source holds under its key; the call
\* goes on to the return with every task handled, and what it returns has a
\* record for every key item of every cell it loaded from the cache and of
\* every statement a task brought, with the amount as loaded or brought in
\* quarters 1 to 3.
C15_TransportErrorIsAbsent ==
    /\ \A i \in DOMAIN futures :
         \/ IsNone(futures[i].df)
         \/ futures[i].df = remote[RemoteKey(api_tasks[i].year, api_tasks[i].report_code,
                                             api_tasks[i].fs_code)]
    /\ Returned =>
         /\ \A i \in DOMAIN futures : futures[i].state = "processed"
         /\ \A i \in CacheHits : \A c \in cache :
              (c.year = log[i].year /\ c.quarter = log[i].quarter /\ c.fs_div = log[i].fs_div) =>
                 \E r \in Records(result) :
                     /\ r.year = c.year
                     /\ r.quarter = c.quarter
                     /\ r.fs_div = c.fs_div
                     /\ r.account_id = c.account_id
                     /\ c.quarter # 4 => r.thstrm_amount = Num(c.thstrm_amount)
         /\ \A i \in DOMAIN futures : \A a \in KeyItemSet \cap DOMAIN futures[i].df :
              \E r \in Records(result) :
                  /\ r.year = api_tasks[i].year
                  /\ r.quarter = api_tasks[i].quarter
                  /\ r.fs_div = api_tasks[i].fs_code
                  /\ r.account_id = a
                  /\ r.quarter # 4 => r.thstrm_amount = futures[i].df[a]

\* C15 witness: a call returned after a task that ended in a transport
\* error, with the records of a cell loaded from the cache and of a
\* statement another task brought
C15_Witness ==
    /\ Returned
    /\ failures > 0
    /\ CacheHits # {}
    /\ \E i, j \in DOMAIN futures :
         /\ TransportError(i)
         /\ ~IsNone(futures[j].df)
         /\ \E r \in Records(result) : /\ r.year = api_tasks[j].year
                                       /\ r.quarter = api_tasks[j].quarter
                                       /\ r.fs_div = api_tasks[j].fs_code

\* C18 as stated: every call applies adjust_q4_values exactly once.
C18_AdjusterRunsOnce ==
    Returned => adjust_calls = 1

\* C18 amended: a call applies adjust_q4_values at most once: not before
\* the lookup loop, probing and the bulk fetch are over and every task is
\* handled, once when all_data holds something, and not at all when all_data
\* is empty; it is applied to the whole of the rows kept from all_data and
\* not to a part of them, and what the call returns is the outcome of that
\* one application, nothing being added to it afterwards.
C18_AdjusterAtMostOnce ==
    /\ adjust_calls <= 1
    /\ pc # "idle" => adjust_calls = 0
    /\ Returned =>
         /\ adjust_calls = (IF all_data = <<>> THEN 0 ELSE 1)
         /\ \A i \in DOMAIN futures : futures[i].state = "processed"
         /\ adjust_calls = 1 => result = adjust_q4_values(filtered(all_data))
         /\ adjust_calls = 0 => result = <<>>

\* C18 witness: a call returned after a bulk fetch, with the Q4 amount 10 of
\* a year before BaseYear adjusted to 4
C18_Witness ==
    /\ Returned
    /\ adjust_calls = 1
    /\ api_tasks # <<>>
    /\ \E i \in DOMAIN result :
         /\ result[i].quarter = 4
         /\ result[i].thstrm_amount = Num(4)
         /\ filtered(all_data)[i].thstrm_amount = Num(10)

DbLookups == { i \in DOMAIN log : log[i].kind = "db" }

\* C20: every lookup of the cache-lookup loop comes before the first remote
\* request of the call, probe or bulk; when a request is issued every cell
\* of quarters_to_collect has been looked up; and no request of the call is
\* for a cell that loop loaded from the cache.
C20_LookupsBeforeRequests ==
    /\ \A j \in DOMAIN log :
         log[j].kind \in {"probe", "api"} =>
            /\ \A i \in j..Len(log) : log[i].kind # "db"
            /\ \A i \in 1..j :
                 (log[i].kind = "db" /\ log[i].res = "hit") => ~SameCell(log[j], log[i])
    /\ (\E j \in DOMAIN log : log[j].kind \in {"probe", "api"}) =>
         \A k \in DOMAIN quarters_to_collect :
             \E i \in DOMAIN log : /\ log[i].kind = "db"
                                   /\ log[i].year = quarters_to_collect[k][1]
                                   /\ log[i].quarter = quarters_to_collect[k][2]

\* C20 witness: a call that loaded cells from the cache and then issued
\* probe and bulk requests for other cells has returned
C20_Witness ==
    /\ Returned
    /\ \E i \in DbLookups : log[i].res = "hit"
    /\ Probes # {}
    /\ ApiCalls # {}

\* the cache after the save of the probe request that brought a statement
ProbeSaved(table) ==
    LET hits == { i \in Probes : log[i].res = "hit" }
    IN  IF hits = {} THEN table
        ELSE LET e == log[CHOOSE i \in hits : TRUE]
             IN  save_financial_data_to_db(
                     table, remote[RemoteKey(e.year, report_code_of(e.quarter), e.fs_div)],
                     e.year, e.quarter, report_code_of(e.quarter), e.fs_div, FALSE)

\* the cache after the saves of the first n tasks, made in the order of
\* api_tasks
RECURSIVE SavedInTaskOrder(_, _)
SavedInTaskOrder(table, n) ==
    IF n = 0 THEN table
    ELSE save_financial_data_to_db(SavedInTaskOrder(table, n - 1), futures[n].df,
                                   api_tasks[n].year, api_tasks[n].quarter,
                                   api_tasks[n].report_code, api_tasks[n].fs_code, FALSE)

\* all_data with the statements of the tasks appended in the order of
\* api_tasks
MergedInTaskOrder ==
    LET brought == { i \in DOMAIN futures : ~IsNone(futures[i].df) }
        before  == SubSeq(all_data, 1, Len(all_data) - Cardinality(brought))
        loaded  == [i \in DOMAIN api_tasks |->
                       Loaded(futures[i].df, api_tasks[i].fs_code, api_tasks[i].year,
                              api_tasks[i].quarter, api_tasks[i].report_code)]
    IN  before \o SelectSeq(loaded, LAMBDA e : ~IsNone(e.df))

\* C21: the tasks of a bulk fetch have pairwise different (year, report
\* code, basis) keys, and whatever the order in which they completed, the
\* cache after the bulk fetch is the cache the saves give when made in the
\* order of api_tasks, and the set of records returned is the set the
\* statements give when merged in the order of api_tasks.
C21_CompletionOrderIrrelevant ==
    (pc \in {"finish", "idle"} /\ api_tasks # <<>>) =>
        /\ \A i, j \in DOMAIN api_tasks :
             (/\ api_tasks[i].year = api_tasks[j].year
              /\ api_tasks[i].report_code = api_tasks[j].report_code
              /\ api_tasks[i].fs_code = api_tasks[j].fs_code) => i = j
        /\ cache = SavedInTaskOrder(ProbeSaved(cache_at_call), Len(api_tasks))
        /\ pc = "idle" => Records(result) = Records(returned(MergedInTaskOrder))

\* C21 witness: two tasks brought statements and the later one in api_tasks
\* was merged first
C21_Witness ==
    /\ Returned
    /\ \E i, j \in DOMAIN api_tasks : \E k, l \in DOMAIN all_data :
         /\ i < j
         /\ l < k
         /\ ~IsNone(futures[i].df)
         /\ ~IsNone(futures[j].df)
         /\ all_data[k] = Loaded(futures[i].df, api_tasks[i].fs_code, api_tasks[i].year,
                                 api_tasks[i].quarter, api_tasks[i].report_code)
         /\ all_data[l] = Loaded(futures[j].df, api_tasks[j].fs_code, api_tasks[j].year,
                                 api_tasks[j].quarter, api_tasks[j].report_code)
         /\ result # <<>>

\* C22: a call without year_month, the anchor being the year alone, goes
\* through the window of an anchor of month 12: the 20 cells from the first
\* quarter of the fourth year before to the fourth quarter of the anchor
\* year, each of them looked up in the cache.
C22_YearOnlyAnchorIsYearEnd ==
    (Returned /\ year_month = NoYearMonth) =>
        /\ Len(quarters_to_collect) = 20
        /\ quarters_to_collect[1][2] = 1
        /\ quarters_to_collect[20][2] = 4
        /\ quarters_to_collect[20][1] = quarters_to_collect[1][1] + 4
        /\ \A k \in DOMAIN quarters_to_collect :
             \E i \in DOMAIN log : /\ log[i].kind = "db"
                                   /\ log[i].year = quarters_to_collect[k][1]
                                   /\ log[i].quarter = quarters_to_collect[k][2]

\* the element of all_data a row of the result comes from
Src(r) ==
    CHOOSE k \in DOMAIN all_data : /\ all_data[k].year = r.year
                                   /\ all_data[k].quarter = r.quarter
                                   /\ all_data[k].fs_div = r.fs_div

C24_OneAmountPerTuple ==
    /\ Returned =>
         \A i, j \in DOMAIN result :
             (/\ result[i].year = result[j].year
              /\ result[i].quarter = result[j].quarter
              /\ result[i].fs_div = result[j].fs_div
              /\ result[i].account_id = result[j].account_id) => i = j
    /\ Cardinality({ <<all_data[k].year, all_data[k].quarter, all_data[k].fs_div>> :
                       k \in DOMAIN all_data }) = Len(all_data)
    /\ Cardinality({ <<r.year, r.report_code, r.fs_div, r.account_id>> : r \in cache })
          = Cardinality(cache)

\* C24 witness: a call returned rows of cells loaded in the lookup loop, of
\* a cell the prober brought and of a cell the bulk fetch brought
C24_Witness ==
    /\ Returned
    /\ \E i \in DOMAIN log : log[i].kind = "db" /\ log[i].res = "hit"
    /\ \E i \in DOMAIN log : /\ log[i].kind = "dbcheck"
                             /\ log[i].res = "hit"
                             /\ \E r \in Records(result) : SameCell(r, log[i])
    /\ \E i \in DOMAIN futures :
         /\ KeyItemSet \cap DOMAIN futures[i].df # {}
         /\ \E r \in Records(result) : /\ r.year = api_tasks[i].year
                                       /\ r.quarter = api_tasks[i].quarter

\* C26: every amount in the cache is the amount the remote source reports
\* for that (year, report code, basis, account), the fourth quarter's being
\* the cumulative one; the step that applies adjust_q4_values writes nothing
\* to the cache; and a Q4 amount loaded from the cache is returned with the
\* Q1-Q3 amounts of its group subtracted once.
C26_CacheHoldsReportedAmounts ==
    /\ \A r \in cache :
         LET st == remote[RemoteKey(r.year, r.report_code, r.fs_div)]
         IN  /\ r.account_id \in DOMAIN st
             /\ st[r.account_id] = Num(r.thstrm_amount)
    /\ pc = "idle" => cache = SavedInTaskOrder(ProbeSaved(cache_at_call), Len(api_tasks))
    /\ Returned =>
         \A i \in DOMAIN result :
             (result[i].quarter = 4 /\ result[i].thstrm_amount # NaN) =>
                 \E r \in cache :
                     /\ r.year = result[i].year
                     /\ r.quarter = 4
                     /\ r.fs_div = result[i].fs_div
                     /\ r.account_id = result[i].account_id
                     /\ result[i].thstrm_amount =
                          Num(r.thstrm_amount
                              - SumAmounts(filtered(all_data),
                                           GroupQ1Q3(filtered(all_data), result[i])))

----------------------------------------------------------------------------
(* The pipeline over a cache file of which one call may raise: a lookup of  *)
(* the lookup loop or of the loop after probing, or a save of the prober or *)
(* of the bulk fetch                                                        *)

\* the statement the remote source may hold for a quarter of BaseYear
StorageStatements == { ("ifrs-full_Revenue" :> Num(7)) @@ (OtherItem :> Num(3)) }

InitStorage ==
    /\ InitRun
    /\ db_state = "faulty"
    /\ InitStore(StorageStatements)

CallStorage == Call(BaseYear * 100 + 5)

NextStorage ==
    \/ CallStorage
    \/ CollectQuarter
    \/ LookupCell
    \/ ProbeCell
    \/ PrepareTask
    \/ SubmitTask
    \/ WorkerStart
    \/ WorkerFinish
    \/ ProcessCompleted
    \/ PoolExit
    \/ Return

SpecStorage == InitStorage /\ [][NextStorage]_vars

StorageErrors == { i \in DOMAIN log : log[i].res = "error" }

\* the cache held rows of the cell and basis of log entry e when the call
\* started
CachedAtCall(e, fs_div) ==
    \E r \in cache_at_call : r.year = e.year /\ r.quarter = e.quarter /\ r.fs_div = fs_div

\* all_data holds an element of the cell of log entry e under fs_div
InAllData(e, fs_div) ==
    \E k \in DOMAIN all_data :
        /\ all_data[k].year = e.year
        /\ all_data[k].quarter = e.quarter
        /\ all_data[k].fs_div = fs_div

\* C14 as stated: a call of the cache that raises ends the run: nothing is
\* looked up or requested after it and the run returns no result.
C14_StorageFailureAborts ==
    \A i \in StorageErrors : i = Len(log) /\ pc # "idle"

\* C14 amended: a call of the cache that raises does not end the run.  A
\* lookup that raised counts as a miss for its cell and basis: the other
\* basis is still looked up and loaded when the cache holds it, and a cell
\* no lookup found goes to missing_tasks or, after probing, to api_tasks.  A
\* save that raised is skipped: the statement of a bulk task is in all_data
\* all the same, and the cell of a probe becomes a task.  The run returns
\* the records of everything in all_data.
C14_StorageFailureTolerated ==
    /\ \A i \in StorageErrors :
         /\ log[i].kind = "db" =>
               /\ \/ \E j \in DOMAIN log : /\ log[j].kind = "db"
                                           /\ log[j].res = "hit"
                                           /\ SameCell(log[j], log[i])
                  \/ \E t \in MissingCells : SameCell(log[i], t)
               /\ (log[i].fs_div = "CFS" /\
                   ~\E j \in 1..i : log[j].kind = "db" /\ log[j].res = "hit"
                                    /\ log[j].fs_div = "CFS") =>
                     /\ i + 1 \in DOMAIN log
                     /\ log[i + 1].kind = "db"
                     /\ SameCell(log[i + 1], log[i])
                     /\ log[i + 1].fs_div = "OFS"
                     /\ CachedAtCall(log[i], "OFS") =>
                           (log[i + 1].res = "hit" /\ InAllData(log[i], "OFS"))
         /\ (log[i].kind = "dbcheck" /\ pc \in {"pool", "finish", "idle"}) =>
               \/ \E j \in DOMAIN log : /\ log[j].kind = "dbcheck"
                                        /\ log[j].res = "hit"
                                        /\ SameCell(log[j], log[i])
               \/ \E k \in DOMAIN api_tasks : /\ api_tasks[k].year = log[i].year
                                              /\ api_tasks[k].quarter = log[i].quarter
         /\ (log[i].kind = "save" /\ pc \in {"pool", "finish", "idle"}) =>
               IF log[i - 1].kind = "probe"
               THEN \E k \in DOMAIN api_tasks : /\ api_tasks[k].year = log[i].year
                                                /\ api_tasks[k].quarter = log[i].quarter
                                                /\ api_tasks[k].fs_code = log[i].fs_div
               ELSE InAllData(log[i], log[i].fs_div)
    /\ (Returned /\ StorageErrors # {}) =>
         \A k \in DOMAIN all_data : \A a \in KeyItemSet \cap DOMAIN all_data[k].df :
             \E r \in Records(result) : /\ r.year = all_data[k].year
                                        /\ r.quarter = all_data[k].quarter
                                        /\ r.fs_div = all_data[k].fs_div
                                        /\ r.account_id = a

\* C14 witness: the CFS lookup of a cell raised, the OFS lookup loaded the
\* cell, and the run returned records
C14_Witness ==
    /\ Returned
    /\ result # <<>>
    /\ \E i \in StorageErrors :
         /\ log[i].kind = "db"
         /\ log[i].fs_div = "CFS"
         /\ log[i + 1].res = "hit"
         /\ \E r \in Records(result) : r.year = log[i].year /\ r.quarter = log[i].quarter

----------------------------------------------------------------------------
(* The pipeline over an empty cache: every cell of the window is missing,   *)
(* so that the bulk fetch has a task, or two, for each of them.  The tasks  *)
(* are run one after another and handled in the order of api_tasks, one of  *)
(* the schedules the executor can produce; C21 is about the others.         *)

\* the statements the remote source may hold for the first quarter of
\* BaseYear: one without key items and one with
ColdStatements ==
    { (OtherItem :> Num(3)),
      ("ifrs-full_Revenue" :> Num(7)) @@ (OtherItem :> Num(3)) }

ColdKeys == { k \in RemoteKeys : k[1] = BaseYear /\ quarter_map(k[2]) = 1 }

InitCold ==
    /\ InitRun
    /\ db_state = "ok"
    /\ \E act \in [ColdKeys -> ColdStatements \cup {None}] :
         remote = [k \in RemoteKeys |-> IF k \in ColdKeys THEN act[k] ELSE None]
    /\ cache = {}
    /\ cache_at_call = {}

\* a month inside the first quarter of BaseYear: a window of 17 cells
CallCold == Call(BaseYear * 100 + 2)

\* a worker starts a task when no other is running
WorkerStartAlone ==
    /\ InState(futures, "running") = {}
    /\ WorkerStart

\* the as_completed loop yields the futures in the order of api_tasks
ProcessCompletedInOrder ==
    /\ ProcessCompleted
    /\ \A i \in DOMAIN futures :
         futures'[i].state = "processed" => \A j \in 1..i : futures'[j].state = "processed"

NextCold ==
    \/ CallCold
    \/ CollectQuarter
    \/ LookupCell
    \/ ProbeCell
    \/ PrepareTask
    \/ SubmitTask
    \/ WorkerStartAlone
    \/ WorkerFinish
    \/ ProcessCompletedInOrder
    \/ PoolExit
    \/ Return

SpecCold == InitCold /\ [][NextCold]_vars

\* no lookup of the call found the cell in the cache
NoCacheHit == ~\E i \in DOMAIN log : log[i].kind \in {"db", "dbcheck"} /\ log[i].res = "hit"

\* C25: a call over a window in which no lookup found a cell in the cache
\* and no remote call brought a statement with a key item returns the empty
\* DataFrame: no row at all.  When every remote call came back with nothing,
\* absent or failed, every cell was asked for under both bases and all_data
\* is empty as well.
C25_EmptyResultWhenNothingObtained ==
    (Returned /\ quarters_to_collect # <<>> /\ NoCacheHit) =>
        /\ (\A i \in DOMAIN futures : KeyItemSet \cap DOMAIN futures[i].df = {})
              => result = <<>>
        /\ ((\A i \in Probes : log[i].res = "none") /\
            (\A i \in DOMAIN futures : IsNone(futures[i].df))) =>
              /\ Len(api_tasks) = 2 * Len(quarters_to_collect)
              /\ all_data = <<>>
              /\ result = <<>>

\* C25 witness: 17 cells missed the cache, the one request the source had a
\* statement for failed in probing, all 34 tasks came back with nothing or
\* with a statement without key items, and the call returned no row
C25_Witness ==
    /\ Returned
    /\ NoCacheHit
    /\ Len(quarters_to_collect) = 17
    /\ Len(api_tasks) = 34
    /\ failures > 0
    /\ \A i \in DOMAIN futures : futures[i].state = "processed"
    /\ result = <<>>

----------------------------------------------------------------------------
(* Termination.  The calls of SpecLive draw the anchor from every month of  *)
(* 0..MaxMonth of BaseYear, once in a behaviour, over a cache that misses   *)
(* the second half of BaseYear.  The main thread runs the                   *)
(* loops of main.py:323-332, 353-391, 405-420, 427-461 and 471-491 and the  *)
(* return; the threads of the executor run get_financial_data, whose        *)
(* requests carry timeout=10 (main.py:137-139) and whose exceptions are     *)
(* caught (main.py:153-155), so that every call of it returns.  Both are    *)
(* scheduled as long as they can take a step: weak fairness of the steps of *)
(* the main thread and of the steps of the workers.  The caller is not      *)
(* obliged to call: no fairness of CallLive.                                *)

LiveStatements == { ("ifrs-full_Revenue" :> Num(7)) }

\* the fs_div the company reports under
LiveBasis == "OFS"

\* the years before BaseYear and the first two quarters of BaseYear are
\* cached under LiveBasis; the source may hold a statement for the third
\* quarter of BaseYear under LiveBasis, and it holds none for the fourth
LiveCached == { k \in RemoteKeys : k[1] \in OldYears \/ (k[1] = BaseYear /\ quarter_map(k[2]) <= 2) }
LiveKeys == { k \in RemoteKeys : k[1] = BaseYear /\ quarter_map(k[2]) = 3 /\ k[3] = LiveBasis }

InitLive ==
    /\ InitRun
    /\ db_state = "ok"
    /\ \E act \in [LiveKeys -> LiveStatements \cup {None}] :
         remote = [k \in RemoteKeys |->
                     IF k \in LiveCached
                     THEN IF k[3] = LiveBasis THEN OldStatement(quarter_map(k[2])) ELSE None
                     ELSE IF k \in LiveKeys THEN act[k]
                     ELSE None]
    /\ cache = UNION { data_to_insert(OldStatement(quarter_map(k[2])), k[1],
                                      quarter_map(k[2]), k[2], k[3])
                       : k \in { x \in LiveCached : x[3] = LiveBasis } }
    /\ cache_at_call = cache

LiveAnchors == { BaseYear * 100 + m : m \in 0..MaxMonth }

\* the first call of the process
CallLive ==
    /\ runs = 0
    /\ \E ym \in LiveAnchors : Call(ym)

MainThread ==
    \/ CollectQuarter
    \/ LookupCell
    \/ ProbeCell
    \/ PrepareTask
    \/ SubmitTask
    \/ ProcessCompleted
    \/ PoolExit
    \/ Return

WorkerThreads == WorkerStart \/ WorkerFinish

NextLive == CallLive \/ MainThread \/ WorkerThreads

SpecLive == InitLive /\ [][NextLive]_vars /\ WF_vars(MainThread) /\ WF_vars(WorkerThreads)

\* C27: every call returns.  Whatever the month of the anchor, 0 and
\* MaxMonth included, the end cell of the quarter-list loop is a cell with a
\* quarter of 1..4 that the loop has not passed, the loop reaches it and the
\* cache lookups start; and from every point of a call, with every remote
\* call returning a statement, nothing or an error, the call reaches its
\* return.
C27_EveryRunTerminates ==
    /\ [](pc = "range" =>
            /\ end_quarter \in 1..4
            /\ current_quarter \in 1..4
            /\ ~Before(<<end_year, end_quarter>>, <<current_year, current_quarter>>))
    /\ (pc = "range") ~> (pc = "lookup")
    /\ (pc # "idle") ~> (pc = "idle")

\* C27 witness: a call anchored at month MaxMonth has built its 20 cells,
\* probed without fixing the basis, fetched in bulk with a request that
\* failed, and returned
C27_Witness ==
    /\ Returned
    /\ year_month = BaseYear * 100 + MaxMonth
    /\ Len(quarters_to_collect) = 20
    /\ Probes # {}
    /\ api_tasks # <<>>
    /\ failures > 0
    /\ \A i \in DOMAIN futures : futures[i].state = "processed"

====
